---- MODULE Spec2Model ----
(***************************************************************************)
(* State-machine model of the speech-to-speech session manager             *)
(* (chatbot-react/src/components/helper/S2SManager.js), of the event       *)
(* constructors it uses (s2sEvents.js) and of the browser objects it       *)
(* drives: WebSocket transports, the token fetch, getUserMedia, the        *)
(* ScriptProcessor / MediaRecorder capture chain and the audio element.    *)
(*                                                                         *)
(* Every handler of the manager runs to completion on the JavaScript event *)
(* loop, so each handler is one action.  The code of a handler is a        *)
(* sequence of statements; it is modelled by operators that take the       *)
(* program state as a record s and return the record after the statement,  *)
(* composed in the order of the source.  The record also carries log, the  *)
(* ordered list of the externally visible effects of the handler that is   *)
(* running (frames handed to send, callbacks, player commands).            *)
(***************************************************************************)
EXTENDS Integers, Sequences, FiniteSets, TLC

(***************************************************************************)
(* Bounds of the model.                                                    *)
(***************************************************************************)
MaxStarts == 2      \* startSession() calls in one run
MaxSockets == 2     \* WebSocket objects created in one run
MaxStreams == 1     \* capture streams granted in one run
MaxCapture == 1     \* capture frames that enter resampling in one run
MaxChunks == 2      \* audioOutput chunks kept in one audio buffer
MaxQueue == 2       \* units waiting in the playback queue
MaxRaw == 2         \* raw messages kept on one transcript entry
MaxTasks == 2       \* rejected play() promises and retry timers pending at once

(***************************************************************************)
(* Program constants.                                                      *)
(***************************************************************************)
AuthCloseCode == 1008       \* close code classified as authentication failure
ResponseKeyLen == 50        \* length of the dedup fingerprint

CloseCodes == {1000, 1006, AuthCloseCode}

Min(a, b) == IF a < b THEN a ELSE b

(***************************************************************************)
(* Outbound events (S2sEvent constructors).  Identifiers are positive      *)
(* integers, 0 stands for null.  Absent fields are empty strings.          *)
(***************************************************************************)
Frame(type, prompt, content, ctype, role, text) ==
    [type |-> type, prompt |-> prompt, content |-> content,
     ctype |-> ctype, role |-> role, text |-> text]

NoFrame == Frame("none", 0, 0, "", "", "")

sessionStart == Frame("sessionStart", 0, 0, "", "", "")

promptStart(promptName) == Frame("promptStart", promptName, 0, "", "", "")

contentStartText(promptName, contentName) ==
    Frame("contentStart", promptName, contentName, "TEXT", "SYSTEM", "")

textInput(promptName, contentName, text, role) ==
    Frame("textInput", promptName, contentName, "", role, text)

contentEnd(promptName, contentName) ==
    Frame("contentEnd", promptName, contentName, "", "", "")

contentStartAudio(promptName, contentName) ==
    Frame("contentStart", promptName, contentName, "AUDIO", "USER", "")

audioInput(promptName, contentName, content) ==
    Frame("audioInput", promptName, contentName, "", "", content)

promptEnd(promptName) == Frame("promptEnd", promptName, 0, "", "", "")

sessionEnd == Frame("sessionEnd", 0, 0, "", "", "")

\* config.systemPrompt and the configurations of config.chatHistory
SystemPrompt == "system prompt"
HistoryTurn1 == [content |-> "turn 1", role |-> "USER"]
HistoryTurn2 == [content |-> "turn 2", role |-> "ASSISTANT"]
Configs ==
    { [includeChatHistory |-> FALSE, chatHistory |-> <<HistoryTurn1, HistoryTurn2>>],
      [includeChatHistory |-> TRUE,  chatHistory |-> <<HistoryTurn1, HistoryTurn2>>],
      [includeChatHistory |-> TRUE,  chatHistory |-> <<>>] }

\* payload of the k-th captured frame after resampling and base64 encoding
Payload(k) == <<"pcm 1", "pcm 2", "pcm 3", "pcm 4">>[k]
\* btoa(audioBlob) of MediaRecorder.onstop
BlobPayload == "blob"

(***************************************************************************)
(* Strings of inbound frames are sequences of characters.                  *)
(***************************************************************************)
Repeat(ch, n) == [i \in 1..n |-> ch]

ShortText == <<"h", "i">>
LongTextX == Repeat("a", ResponseKeyLen) \o <<"x">>
LongTextY == Repeat("a", ResponseKeyLen) \o <<"y">>
JsonInterrupted ==
    <<"{", "\"", "i", "n", "t", "e", "r", "r", "u", "p", "t", "e", "d", "\"",
      ":", "t", "r", "u", "e", "}">>
JsonOther ==
    <<"{", "\"", "i", "n", "t", "e", "r", "r", "u", "p", "t", "e", "d", "\"",
      ":", "f", "a", "l", "s", "e", "}">>
JsonBroken == <<"{", "o", "o", "p", "s">>

\* String.prototype.startsWith for a one-character argument
StartsWith(str, ch) == Len(str) > 0 /\ str[1] = ch

\* String.prototype.substring(0, n)
Substring(str, n) == SubSeq(str, 1, Min(n, Len(str)))

\* JSON.parse on the strings above: the parsed object, or a SyntaxError
JsonParse(str) ==
    IF str = JsonInterrupted THEN [ok |-> TRUE, interrupted |-> TRUE]
    ELSE IF str = JsonOther THEN [ok |-> TRUE, interrupted |-> FALSE]
    ELSE [ok |-> FALSE, interrupted |-> FALSE]

(***************************************************************************)
(* Inbound messages.  kind tells what JSON.parse(message.data) yields:     *)
(* "event" is an object with one key under event; the other kinds are the  *)
(* malformed shapes.  has* tell whether a field is present.                *)
(***************************************************************************)
Msg(kind, type, role, hasContent, content, contentId, stopReason, ctype, stage) ==
    [kind |-> kind, type |-> type, role |-> role, hasContent |-> hasContent,
     content |-> content, contentId |-> contentId, stopReason |-> stopReason,
     ctype |-> ctype, stage |-> stage]

NoMsg == Msg("none", "", "", FALSE, <<>>, "", "", "", "")

textOutput(role, hasContent, content, contentId, stopReason) ==
    Msg("event", "textOutput", role, hasContent, content, contentId, stopReason, "", "")

audioOutput(contentId, chunk) ==
    Msg("event", "audioOutput", "ASSISTANT", TRUE, chunk, contentId, "", "", "")

contentStartIn(ctype, role, contentId, stage) ==
    Msg("event", "contentStart", role, FALSE, <<>>, contentId, "", ctype, stage)

contentEndIn(ctype, contentId, stopReason) ==
    Msg("event", "contentEnd", "", FALSE, <<>>, contentId, stopReason, ctype, "")

(***************************************************************************)
(* Entries of log.  All entries have the same fields.                      *)
(***************************************************************************)
Ev(ev, name, t, frame, defined, arg) ==
    [ev |-> ev, name |-> name, t |-> t, frame |-> frame,
     defined |-> defined, arg |-> arg]

SendEv(t, frame) == Ev("send", "", t, frame, FALSE, <<>>)
DropEv(t, frame) == Ev("drop", "", t, frame, FALSE, <<>>)
CallEv(name) == Ev("call", name, 0, NoFrame, FALSE, <<>>)
CallArgEv(name, defined, arg) == Ev("call", name, 0, NoFrame, defined, arg)
CloseEv(t) == Ev("close", "", t, NoFrame, FALSE, <<>>)
ThrowEv(name) == Ev("throw", name, 0, NoFrame, FALSE, <<>>)
StepEv(name) == Ev("step", name, 0, NoFrame, FALSE, <<>>)
StepArgEv(name, arg) == Ev("step", name, 0, NoFrame, TRUE, arg)

\* names of the callbacks with their arguments, as far as they matter
OnStateChangeTrue == "onStateChange(true)"
OnStateChangeFalse == "onStateChange(false)"
OnErrorAuthFailed == "onError(Authentication failed. Please sign in again.)"
OnErrorDisconnected == "onError(WebSocket Disconnected)"
OnErrorSocket == "onError(WebSocket Error)"
OnErrorToken == "onError(Authentication error)"
OnErrorMicrophone == "onError(Error accessing microphone)"

(***************************************************************************)
(* State.                                                                  *)
(***************************************************************************)
VARIABLES
    config,             \* this.config: includeChatHistory, chatHistory
    sessionStarted,     \* this.sessionStarted
    socket,             \* this.socket: index into sockets, 0 is null
    mediaRecorder,      \* this.mediaRecorder: index into streams, 0 is null
    audioPlayerRef,     \* this.audioPlayerRef is set
    audioQueue,         \* this.audioQueue
    isPlaying,          \* this.isPlaying
    audioPlayPromise,   \* this.audioPlayPromise is not null
    audioResponse,      \* this.audioResponse: contentId -> buffer
    chatMessages,       \* this.chatMessages: contentId -> entry
    sentResponses,      \* this.sentResponses
    promptName,         \* this.promptName
    textContentName,    \* this.textContentName
    audioContentName,   \* this.audioContentName
    audioCleanup,       \* window.audioCleanup: index into streams, 0 is unset
    sockets,            \* the WebSocket objects created so far
    tokenWaiters,       \* startSession() calls suspended in Auth.currentSession()
    micWaiters,         \* startMicrophone() calls suspended in getUserMedia()
    streams,            \* the capture chains created so far
    rendering,          \* capture frames suspended in startRendering()
    captured,           \* number of capture frames that entered resampling
    player,             \* the audio element
    rejections,         \* rejected play() promises whose catch has not run yet
    timers,             \* pending setTimeout(playNext, 100)
    nextId,             \* next value of crypto.randomUUID()
    stopRaises,         \* what stop() of an inactive MediaRecorder does on this engine
    starts,             \* number of startSession() calls so far
    lastOp,             \* the handler that ran last, with its arguments
    log,                \* the effects of that handler, in order
    arrived,            \* the ASSISTANT texts received in this session
    delivered,          \* the texts passed to onResponse in this session
    earlier,            \* the texts passed to onResponse in earlier sessions
    blocks              \* chunks received per audio block opened in this session

vars == <<config, sessionStarted, socket, mediaRecorder, audioPlayerRef, audioQueue,
          isPlaying, audioPlayPromise, audioResponse, chatMessages, sentResponses,
          promptName, textContentName, audioContentName, audioCleanup, sockets,
          tokenWaiters, micWaiters, streams, rendering, captured, player,
          rejections, timers, nextId, stopRaises, starts, lastOp, log, arrived, delivered, earlier, blocks>>

ContentIds == {"c1", "c2"}

\* absent entries of the two maps
NoBuffer == [present |-> FALSE, data |-> <<>>]
NoEntry == [present |-> FALSE, content |-> <<>>, hasContent |-> FALSE, role |-> "",
            generationStage |-> "", stopReason |-> "", raw |-> 0]
NoBlock == [open |-> FALSE, data |-> <<>>]

\* playable units and the audio element
NoUnit == [unit |-> FALSE, data |-> <<>>]
NoPlayer == [src |-> NoUnit, state |-> "empty", play |-> "none"]

\* op: the handler; t: the transport it concerns (for a method of the manager:
\* this.socket at the call); ready: that transport was OPEN when the handler
\* began; code: the close code; msg: the inbound message
Op(op, t, ready, code, msg) ==
    [op |-> op, t |-> t, ready |-> ready, code |-> code, msg |-> msg]

\* the program state as one record, with an empty log
Cur ==
    [config |-> config, sessionStarted |-> sessionStarted, socket |-> socket,
     mediaRecorder |-> mediaRecorder, audioPlayerRef |-> audioPlayerRef,
     audioQueue |-> audioQueue, isPlaying |-> isPlaying,
     audioPlayPromise |-> audioPlayPromise, audioResponse |-> audioResponse,
     chatMessages |-> chatMessages, sentResponses |-> sentResponses,
     promptName |-> promptName, textContentName |-> textContentName,
     audioContentName |-> audioContentName, audioCleanup |-> audioCleanup,
     sockets |-> sockets, tokenWaiters |-> tokenWaiters, micWaiters |-> micWaiters,
     streams |-> streams, rendering |-> rendering, captured |-> captured,
     player |-> player, rejections |-> rejections, timers |-> timers,
     nextId |-> nextId, stopRaises |-> stopRaises, starts |-> starts, arrived |-> arrived,
     delivered |-> delivered, earlier |-> earlier, blocks |-> blocks,
     log |-> <<>>]

\* the handler op ran and left the program in s
Commit(op, s) ==
    /\ config' = s.config
    /\ sessionStarted' = s.sessionStarted
    /\ socket' = s.socket
    /\ mediaRecorder' = s.mediaRecorder
    /\ audioPlayerRef' = s.audioPlayerRef
    /\ audioQueue' = s.audioQueue
    /\ isPlaying' = s.isPlaying
    /\ audioPlayPromise' = s.audioPlayPromise
    /\ audioResponse' = s.audioResponse
    /\ chatMessages' = s.chatMessages
    /\ sentResponses' = s.sentResponses
    /\ promptName' = s.promptName
    /\ textContentName' = s.textContentName
    /\ audioContentName' = s.audioContentName
    /\ audioCleanup' = s.audioCleanup
    /\ sockets' = s.sockets
    /\ tokenWaiters' = s.tokenWaiters
    /\ micWaiters' = s.micWaiters
    /\ streams' = s.streams
    /\ rendering' = s.rendering
    /\ captured' = s.captured
    /\ player' = s.player
    /\ rejections' = s.rejections
    /\ timers' = s.timers
    /\ nextId' = s.nextId
    /\ stopRaises' = s.stopRaises
    /\ starts' = s.starts
    /\ arrived' = s.arrived
    /\ delivered' = s.delivered
    /\ earlier' = s.earlier
    /\ blocks' = s.blocks
    /\ log' = s.log
    /\ lastOp' = op

Logged(s, e) == [s EXCEPT !.log = Append(@, e)]

Init ==
    /\ config \in Configs
    /\ sessionStarted = FALSE
    /\ socket = 0
    /\ mediaRecorder = 0
    /\ audioPlayerRef = FALSE
    /\ audioQueue = <<>>
    /\ isPlaying = FALSE
    /\ audioPlayPromise = FALSE
    /\ audioResponse = [c \in ContentIds |-> NoBuffer]
    /\ chatMessages = [c \in ContentIds |-> NoEntry]
    /\ sentResponses = {}
    /\ promptName = 0
    /\ textContentName = 0
    /\ audioContentName = 0
    /\ audioCleanup = 0
    /\ sockets = <<>>
    /\ tokenWaiters = 0
    /\ micWaiters = 0
    /\ streams = <<>>
    /\ rendering = {}
    /\ captured = 0
    /\ player = NoPlayer
    /\ rejections = 0
    /\ timers = 0
    /\ nextId = 1
    /\ stopRaises = "unknown"
    /\ starts = 0
    /\ lastOp = Op("constructor", 0, FALSE, 0, NoMsg)
    /\ log = <<>>
    /\ arrived = {}
    /\ delivered = {}
    /\ earlier = {}
    /\ blocks = [c \in ContentIds |-> NoBlock]

(***************************************************************************)
(* sendEvent and the transport handlers of connectWebSocket.               *)
(***************************************************************************)
IsOpen(s, t) == t # 0 /\ s.sockets[t].state = "open"

\* sendEvent without the readyState test: the event is written to whatever
\* transport this.socket names
SendEventUnchecked(s, event) ==
    IF s.socket # 0
    THEN Logged([s EXCEPT !.sockets[s.socket].sent = Append(@, event)],
                SendEv(s.socket, event))
    ELSE Logged(s, DropEv(s.socket, event))

\* sendEvent: the event is written only while this.socket is open
SendEvent(s, event) ==
    IF IsOpen(s, s.socket)
    THEN Logged([s EXCEPT !.sockets[s.socket].sent = Append(@, event)],
                SendEv(s.socket, event))
    ELSE Logged(s, DropEv(s.socket, event))

\* consecutive sendEvent calls
RECURSIVE SendAll(_, _)
SendAll(s, events) ==
    IF events = <<>> THEN s
    ELSE SendAll(SendEvent(s, Head(events)), Tail(events))

\* the textInput events of the chat history loop
HistoryInputs(promptId, contentId, chatHistory) ==
    [i \in 1..Len(chatHistory) |->
        textInput(promptId, contentId, chatHistory[i].content, chatHistory[i].role)]

\* the events of socket.onopen, in the order of the handler
SetupEvents(cfg, promptId, textId, audioId, historyId) ==
    <<sessionStart,
      promptStart(promptId),
      contentStartText(promptId, textId),
      textInput(promptId, textId, SystemPrompt, ""),
      contentEnd(promptId, textId)>>
    \o (IF cfg.includeChatHistory
        THEN <<contentStartText(promptId, historyId)>>
             \o HistoryInputs(promptId, historyId, cfg.chatHistory)
             \o <<contentEnd(promptId, historyId)>>
        ELSE <<>>)
    \o <<contentStartAudio(promptId, audioId)>>

\* socket.onopen
OnOpen(s) ==
    LET promptId == s.nextId
        textId == s.nextId + 1
        audioId == s.nextId + 2
        historyId == s.nextId + 3
        s1 == [s EXCEPT !.promptName = promptId,
                        !.textContentName = textId,
                        !.audioContentName = audioId,
                        !.nextId = IF s.config.includeChatHistory
                                   THEN s.nextId + 4 ELSE s.nextId + 3]
    IN SendAll(s1, SetupEvents(s.config, promptId, textId, audioId, historyId))

\* onclose testing sessionStarted before the close code
OnCloseStartedFirst(s, code) ==
    IF s.sessionStarted THEN Logged(s, CallEv(OnErrorDisconnected))
    ELSE IF code = AuthCloseCode THEN Logged(s, CallEv(OnErrorAuthFailed))
    ELSE s

\* socket.onclose
OnClose(s, code) ==
    IF code = AuthCloseCode THEN Logged(s, CallEv(OnErrorAuthFailed))
    ELSE IF s.sessionStarted THEN Logged(s, CallEv(OnErrorDisconnected))
    ELSE s

\* socket.onerror
OnError(s) == Logged(s, CallEv(OnErrorSocket))

(***************************************************************************)
(* Capture chain.  A stream record stands for one successful               *)
(* getUserMedia(): its tracks, the ScriptProcessor wired to them, the      *)
(* MediaRecorder on them and the cleanup closure over them.                *)
(***************************************************************************)
NewStream == [tracks |-> TRUE, processor |-> TRUE, recorder |-> "recording",
              releases |-> 0, stopEvt |-> FALSE]

\* the closure stored in window.audioCleanup for stream i; stopping the last
\* track of a recording MediaRecorder makes it inactive and queues its stop event
AudioCleanupOf(s, i) ==
    [s EXCEPT !.streams[i] =
        [@ EXCEPT !.processor = FALSE, !.tracks = FALSE, !.releases = @ + 1,
                  !.recorder = "inactive",
                  !.stopEvt = @ \/ s.streams[i].recorder = "recording"]]

\* MediaRecorder.stop() of a recording recorder
RecorderStop(s, i) ==
    [s EXCEPT !.streams[i] = [@ EXCEPT !.recorder = "inactive", !.stopEvt = TRUE]]

\* startMicrophone() up to its await
StartMicrophone(s) == [s EXCEPT !.micWaiters = @ + 1]

(***************************************************************************)
(* startSession and endSession.                                            *)
(***************************************************************************)
\* resetState that leaves the fingerprints of the previous session in place
ResetStateKeepsSent(s) ==
    [s EXCEPT !.chatMessages = [c \in ContentIds |-> NoEntry],
              !.audioResponse = [c \in ContentIds |-> NoBuffer],
              !.audioQueue = <<>>]

\* the state reset at the top of startSession
ResetState(s) ==
    [s EXCEPT !.chatMessages = [c \in ContentIds |-> NoEntry],
              !.audioResponse = [c \in ContentIds |-> NoBuffer],
              !.audioQueue = <<>>,
              !.sentResponses = {}]

\* a session begins: what the session has received so far starts afresh
NewSession(s) ==
    [s EXCEPT !.arrived = {},
              !.delivered = {},
              !.earlier = @ \cup s.delivered,
              !.blocks = [c \in ContentIds |-> NoBlock]]

\* the end of startSession firing onStateChange(true) without setting
\* sessionStarted
StartSessionTailUnset(s) == Logged(StartMicrophone(s), CallEv(OnStateChangeTrue))

\* startSession after the connect step
StartSessionTail(s) ==
    Logged([StartMicrophone(s) EXCEPT !.sessionStarted = TRUE],
           CallEv(OnStateChangeTrue))

\* endSession leaving the transport open and this.socket set
CloseSocketKeeps(s) == Logged(s, CloseEv(s.socket))

\* socket.close() followed by this.socket = null
CloseSocket(s) ==
    LET t == s.socket
        s1 == IF s.sockets[t].state \in {"connecting", "open"}
              THEN [s EXCEPT !.sockets[t].state = "closing"] ELSE s
    IN Logged([s1 EXCEPT !.socket = 0], CloseEv(t))

\* endSession().  stop() of an inactive MediaRecorder raises InvalidStateError
\* on engines that follow the original MediaStream Recording text (and the
\* MDN page) and returns silently on the others; stopThrows is what the
\* engine of this run does, fixed at the first such call.
EndSessionBody(s, stopThrows) ==
    IF s.socket = 0 THEN s
    ELSE
      LET mr == s.mediaRecorder
          callStop == mr # 0 /\ s.sessionStarted
          inactive == callStop /\ s.streams[mr].recorder = "inactive"
          s0 == IF inactive
                THEN [s EXCEPT !.stopRaises = IF stopThrows THEN "yes" ELSE "no"]
                ELSE s
      IN IF inactive /\ stopThrows
         THEN Logged(s0, ThrowEv("InvalidStateError"))
         ELSE
           LET s1 == IF callStop /\ ~inactive THEN RecorderStop(s0, mr) ELSE s0
               s2 == IF s1.promptName # 0 /\ s1.audioContentName # 0
                     THEN SendAll(s1, <<contentEnd(s1.promptName, s1.audioContentName),
                                        promptEnd(s1.promptName),
                                        sessionEnd>>)
                     ELSE s1
               s3 == CloseSocket(s2)
               s4 == IF s3.audioCleanup # 0
                     THEN AudioCleanupOf(s3, s3.audioCleanup) ELSE s3
           IN Logged([s4 EXCEPT !.sessionStarted = FALSE],
                     CallEv(OnStateChangeFalse))

(***************************************************************************)
(* Actions: the session.                                                   *)
(***************************************************************************)
\* the host attaches the audio element (Chat, s2sEvents.js)
SetAudioPlayerRef ==
    /\ ~audioPlayerRef
    /\ Commit(Op("setAudioPlayerRef", 0, FALSE, 0, NoMsg),
              [Cur EXCEPT !.audioPlayerRef = TRUE])

\* startSession() up to the await of the token; the host calls it only while
\* isSessionActive() is false (Chat.startListening)
StartSession ==
    /\ ~sessionStarted
    /\ starts < MaxStarts
    /\ LET s1 == [ResetState(NewSession(Cur)) EXCEPT !.starts = @ + 1]
           s2 == IF ~IsOpen(s1, s1.socket)
                 THEN [s1 EXCEPT !.tokenWaiters = @ + 1]
                 ELSE StartSessionTail(s1)
       IN Commit(Op("startSession", socket, IsOpen(Cur, socket), 0, NoMsg), s2)

\* Auth.currentSession() resolves: the rest of connectWebSocket, then the
\* rest of startSession
TokenResolved ==
    /\ tokenWaiters > 0
    /\ Len(sockets) < MaxSockets
    /\ LET t == Len(sockets) + 1
           s1 == [Cur EXCEPT !.tokenWaiters = @ - 1,
                             !.sockets = Append(@, [state |-> "connecting", sent |-> <<>>]),
                             !.socket = t]
       IN Commit(Op("tokenResolved", t, FALSE, 0, NoMsg), StartSessionTail(s1))

\* Auth.currentSession() rejects: the catch of connectWebSocket, then the
\* rest of startSession
TokenRejected ==
    /\ tokenWaiters > 0
    /\ LET s1 == Logged([Cur EXCEPT !.tokenWaiters = @ - 1], CallEv(OnErrorToken))
       IN Commit(Op("tokenRejected", socket, FALSE, 0, NoMsg), StartSessionTail(s1))

SocketOpen(t) ==
    /\ sockets[t].state = "connecting"
    /\ LET s1 == [Cur EXCEPT !.sockets[t].state = "open"]
       IN Commit(Op("onopen", t, FALSE, 0, NoMsg), OnOpen(s1))

\* the close event of transport t: the peer or the network closed it, or the
\* closing handshake that socket.close() began has finished
SocketClose(t, code) ==
    /\ sockets[t].state \in {"connecting", "open", "closing"}
    /\ LET s1 == [Cur EXCEPT !.sockets[t].state = "closed"]
       IN Commit(Op("onclose", t, sockets[t].state = "open", code, NoMsg),
                 OnClose(s1, code))

SocketError(t) ==
    /\ sockets[t].state \in {"connecting", "open", "closing"}
    /\ Commit(Op("onerror", t, sockets[t].state = "open", 0, NoMsg), OnError(Cur))

EndSession ==
    \E stopThrows \in BOOLEAN :
        /\ stopRaises = "unknown" \/ stopThrows = (stopRaises = "yes")
        /\ Commit(Op("endSession", socket, IsOpen(Cur, socket), 0, NoMsg),
                  EndSessionBody(Cur, stopThrows))

(***************************************************************************)
(* Actions: the microphone.                                                *)
(***************************************************************************)
\* getUserMedia() resolves: the rest of startMicrophone
MicGranted ==
    /\ micWaiters > 0
    /\ Len(streams) < MaxStreams
    /\ LET i == Len(streams) + 1
       IN Commit(Op("micGranted", socket, IsOpen(Cur, socket), 0, NoMsg),
                 [Cur EXCEPT !.micWaiters = @ - 1,
                             !.streams = Append(@, NewStream),
                             !.audioCleanup = i,
                             !.mediaRecorder = i])

\* getUserMedia() rejects: the catch of startMicrophone
MicDenied ==
    /\ micWaiters > 0
    /\ Commit(Op("micDenied", socket, IsOpen(Cur, socket), 0, NoMsg),
              Logged([Cur EXCEPT !.micWaiters = @ - 1], CallEv(OnErrorMicrophone)))

\* processor.onaudioprocess of stream i, up to the await of startRendering()
AudioProcess(i) ==
    /\ streams[i].processor
    /\ sessionStarted
    /\ captured < MaxCapture
    /\ Commit(Op("onaudioprocess", socket, IsOpen(Cur, socket), 0, NoMsg),
              [Cur EXCEPT !.captured = @ + 1, !.rendering = @ \cup {captured + 1}])

\* startRendering() of frame k resolves: the rest of onaudioprocess
Rendered(k) ==
    /\ k \in rendering
    /\ LET s1 == [Cur EXCEPT !.rendering = @ \ {k}]
       IN Commit(Op("rendered", socket, IsOpen(Cur, socket), 0, NoMsg),
                 SendEvent(s1, audioInput(s1.promptName, s1.audioContentName, Payload(k))))

\* mediaRecorder.onstop of stream i
RecorderStopped(i) ==
    /\ streams[i].stopEvt
    /\ LET s1 == [Cur EXCEPT !.streams[i].stopEvt = FALSE]
       IN Commit(Op("onstop", socket, IsOpen(Cur, socket), 0, NoMsg),
                 SendEvent(s1, audioInput(s1.promptName, s1.audioContentName, BlobPayload)))

(***************************************************************************)
(* Playback: cancelAudio, audioEnqueue, playNext.  The audio element is    *)
(* player: src is its unit, state its playback state, play the state of    *)
(* the promise of the last play() call.  pause() and load() reject a       *)
(* pending play() promise (AbortError); the catch callback runs later.     *)
(***************************************************************************)
Active(p) == p.state \in {"loading", "playing"}

\* audioPlayerRef.pause(); audioPlayerRef.currentTime = 0
Pause(s) ==
    Logged([s EXCEPT !.player.state = IF Active(s.player) THEN "paused" ELSE @,
                     !.player.play = IF @ = "pending" THEN "none" ELSE @,
                     !.rejections = IF s.player.play = "pending" THEN @ + 1 ELSE @],
           StepEv("pause"))

\* cancelAudio that clears the queue and the flag but leaves the audio
\* element running
CancelAudioNoPause(s) ==
    Logged([s EXCEPT !.audioQueue = <<>>, !.isPlaying = FALSE], StepEv("clearQueue"))

\* cancelAudio()
CancelAudio(s) ==
    LET s1 == IF s.audioPlayerRef /\ s.audioPlayPromise
              THEN [Pause(s) EXCEPT !.audioPlayPromise = FALSE]
              ELSE s
    IN Logged([s1 EXCEPT !.audioQueue = <<>>, !.isPlaying = FALSE],
              StepEv("clearQueue"))

\* playNext().  throws: assigning src, load() or play() raises synchronously
PlayNext(s, throws) ==
    IF s.isPlaying \/ s.audioQueue = <<>> THEN s
    ELSE IF s.audioPlayerRef
    THEN LET audioUrl == Head(s.audioQueue)
             s1 == [s EXCEPT !.audioQueue = Tail(@), !.isPlaying = TRUE]
         IN IF throws
            THEN Logged([s1 EXCEPT !.isPlaying = FALSE], StepEv("playThrew"))
            ELSE Logged([s1 EXCEPT !.player = [src |-> audioUrl, state |-> "loading",
                                               play |-> "pending"],
                                   !.rejections = IF s.player.play = "pending"
                                                  THEN @ + 1 ELSE @,
                                   !.audioPlayPromise = TRUE],
                        StepArgEv("play", audioUrl.data))
    ELSE s

\* audioEnqueue that only appends the unit and leaves starting it to others
AudioEnqueueOnly(s, audioUrl, throws) ==
    Logged([s EXCEPT !.audioQueue = Append(@, audioUrl)],
           StepArgEv("enqueue", audioUrl.data))

\* audioEnqueue(audioUrl)
AudioEnqueue(s, audioUrl, throws) ==
    LET s1 == Logged([s EXCEPT !.audioQueue = Append(@, audioUrl)],
                     StepArgEv("enqueue", audioUrl.data))
    IN IF ~s1.isPlaying THEN PlayNext(s1, throws) ELSE s1

\* the catch callback of play()
PlayRejected(s) == [s EXCEPT !.isPlaying = FALSE, !.timers = @ + 1]

\* audioPlayerRef.onended
OnEnded(s, throws) == PlayNext([s EXCEPT !.isPlaying = FALSE], throws)

\* base64LPCM of audioHelper: the playable unit of a base64 buffer
Undefined == <<"u", "n", "d", "e", "f", "i", "n", "e", "d">>
Base64LPCM(buffer) ==
    [unit |-> TRUE, data |-> IF buffer.present THEN buffer.data ELSE Undefined]

(***************************************************************************)
(* socket.onmessage and handleIncomingMessage.                             *)
(***************************************************************************)
\* textOutput forwarding a USER text only when its block has an accumulator
\* entry
TextOutputRestKnownOnly(s, m) ==
    LET id == m.contentId
        known == id \in ContentIds /\ s.chatMessages[id].present
        s1 == IF known
              THEN Logged([s EXCEPT !.chatMessages[id] =
                              [@ EXCEPT !.content = m.content,
                                        !.hasContent = m.hasContent,
                                        !.role = m.role,
                                        !.raw = @ + 1]],
                          StepEv("accumulate"))
              ELSE s
        responseKey == Substring(m.content, ResponseKeyLen)
    IN IF m.role = "USER" /\ known
       THEN Logged(Logged(s1, CallArgEv("onTranscription", m.hasContent, m.content)),
                   CallArgEv("onUserMessage", m.hasContent, m.content))
       ELSE IF m.role = "ASSISTANT" /\ responseKey \notin s1.sentResponses
       THEN Logged([s1 EXCEPT !.sentResponses = @ \cup {responseKey}],
                   CallArgEv("onResponse", m.hasContent, m.content))
       ELSE s1

\* case "textOutput", from the accumulator update on
TextOutputRest(s, m) ==
    LET id == m.contentId
        s1 == IF id \in ContentIds /\ s.chatMessages[id].present
              THEN Logged([s EXCEPT !.chatMessages[id] =
                              [@ EXCEPT !.content = m.content,
                                        !.hasContent = m.hasContent,
                                        !.role = m.role,
                                        !.raw = @ + 1]],
                          StepEv("accumulate"))
              ELSE s
        responseKey == Substring(m.content, ResponseKeyLen)
    IN IF m.role = "USER"
       THEN Logged(Logged(s1, CallArgEv("onTranscription", m.hasContent, m.content)),
                   CallArgEv("onUserMessage", m.hasContent, m.content))
       ELSE IF m.role = "ASSISTANT"
       THEN IF responseKey \notin s1.sentResponses
            THEN Logged([s1 EXCEPT !.sentResponses = @ \cup {responseKey}],
                        CallArgEv("onResponse", m.hasContent, m.content))
            ELSE s1
       ELSE s1

\* textOutput cancelling playback after the text has been forwarded
TextOutputCancelLate(s, m) ==
    IF m.role = "ASSISTANT" /\ ~m.hasContent
    THEN Logged(s, ThrowEv("TypeError"))
    ELSE IF m.role = "ASSISTANT" /\ StartsWith(m.content, "{")
    THEN IF ~JsonParse(m.content).ok
         THEN Logged(s, ThrowEv("SyntaxError"))
         ELSE IF JsonParse(m.content).interrupted
         THEN CancelAudio(TextOutputRest(s, m))
         ELSE TextOutputRest(s, m)
    ELSE TextOutputRest(s, m)

\* textOutput cancelling playback only for a marker whose text is new
TextOutputCancelFresh(s, m) ==
    IF m.role = "ASSISTANT" /\ ~m.hasContent
    THEN Logged(s, ThrowEv("TypeError"))
    ELSE IF m.role = "ASSISTANT" /\ StartsWith(m.content, "{")
    THEN IF ~JsonParse(m.content).ok
         THEN Logged(s, ThrowEv("SyntaxError"))
         ELSE IF /\ JsonParse(m.content).interrupted
                 /\ Substring(m.content, ResponseKeyLen) \notin s.sentResponses
         THEN TextOutputRest(CancelAudio(s), m)
         ELSE TextOutputRest(s, m)
    ELSE TextOutputRest(s, m)

\* case "textOutput"
TextOutput(s, m) ==
    IF m.role = "ASSISTANT" /\ ~m.hasContent
    THEN Logged(s, ThrowEv("TypeError"))
    ELSE IF m.role = "ASSISTANT" /\ StartsWith(m.content, "{")
    THEN IF ~JsonParse(m.content).ok
         THEN Logged(s, ThrowEv("SyntaxError"))
         ELSE IF JsonParse(m.content).interrupted
         THEN TextOutputRest(CancelAudio(s), m)
         ELSE TextOutputRest(s, m)
    ELSE TextOutputRest(s, m)

\* audioOutput dropping the chunk of a contentId that has no buffer
AudioOutputKnownOnly(s, m) ==
    LET id == m.contentId
    IN IF s.audioResponse[id].present
       THEN [s EXCEPT !.audioResponse[id].data =
                @ \o (IF m.hasContent THEN m.content ELSE Undefined)]
       ELSE s

\* audioOutput putting the new chunk in front of the buffer
AudioOutputPrepend(s, m) ==
    LET id == m.contentId
    IN [s EXCEPT !.audioResponse[id] =
            [present |-> TRUE,
             data |-> (IF m.hasContent THEN m.content ELSE Undefined)
                      \o (IF @.present THEN @.data ELSE <<>>)]]

\* case "audioOutput"
AudioOutput(s, m) ==
    LET id == m.contentId
    IN [s EXCEPT !.audioResponse[id] =
            [present |-> TRUE,
             data |-> (IF @.present THEN @.data ELSE <<>>)
                      \o (IF m.hasContent THEN m.content ELSE Undefined)]]

\* case "contentStart"
ContentStart(s, m) ==
    LET id == m.contentId
    IN IF m.ctype = "AUDIO"
       THEN [s EXCEPT !.audioResponse[id] = [present |-> TRUE, data |-> <<>>]]
       ELSE IF m.ctype = "TEXT"
       THEN [s EXCEPT !.chatMessages[id] =
                [present |-> TRUE, content |-> <<>>, hasContent |-> TRUE,
                 role |-> m.role, generationStage |-> m.stage,
                 stopReason |-> "", raw |-> 1]]
       ELSE s

\* contentEnd that logs a TEXT frame on the entry without recording its
\* stopReason
ContentEndNoStopReason(s, m, throws) ==
    LET id == m.contentId
    IN IF m.ctype = "AUDIO"
       THEN AudioEnqueue(s, Base64LPCM(s.audioResponse[id]), throws)
       ELSE IF m.ctype = "TEXT"
       THEN IF s.chatMessages[id].present
            THEN [s EXCEPT !.chatMessages[id] = [@ EXCEPT !.raw = @ + 1]]
            ELSE s
       ELSE s

\* case "contentEnd"
ContentEnd(s, m, throws) ==
    LET id == m.contentId
    IN IF m.ctype = "AUDIO"
       THEN AudioEnqueue(s, Base64LPCM(s.audioResponse[id]), throws)
       ELSE IF m.ctype = "TEXT"
       THEN IF s.chatMessages[id].present
            THEN [s EXCEPT !.chatMessages[id] =
                     [@ EXCEPT !.raw = @ + 1, !.stopReason = m.stopReason]]
            ELSE s
       ELSE s

\* handleIncomingMessage reporting an event type it does not know
HandleIncomingMessageStrict(s, m, throws) ==
    IF m.kind = "notjson" THEN Logged(s, ThrowEv("SyntaxError"))
    ELSE IF m.kind \in {"noevent", "emptyevent"} THEN Logged(s, ThrowEv("TypeError"))
    ELSE IF m.type = "textOutput" THEN TextOutput(s, m)
    ELSE IF m.type = "audioOutput" THEN AudioOutput(s, m)
    ELSE IF m.type = "contentStart" THEN ContentStart(s, m)
    ELSE IF m.type = "contentEnd" THEN ContentEnd(s, m, throws)
    ELSE Logged(s, CallEv(OnErrorSocket))

\* socket.onmessage: JSON.parse(message.data), then handleIncomingMessage
HandleIncomingMessage(s, m, throws) ==
    IF m.kind = "notjson" THEN Logged(s, ThrowEv("SyntaxError"))
    ELSE IF m.kind \in {"noevent", "emptyevent"} THEN Logged(s, ThrowEv("TypeError"))
    ELSE IF m.type = "textOutput" THEN TextOutput(s, m)
    ELSE IF m.type = "audioOutput" THEN AudioOutput(s, m)
    ELSE IF m.type = "contentStart" THEN ContentStart(s, m)
    ELSE IF m.type = "contentEnd" THEN ContentEnd(s, m, throws)
    ELSE s

\* what the session has received so far: the ASSISTANT texts and those of
\* them that the handler passed to onResponse, and per audio block the chunks
\* since its contentStart
Received(s, m) ==
    LET id == m.contentId
    IN IF m.kind # "event" THEN s
       ELSE IF m.type = "textOutput" /\ m.role = "ASSISTANT" /\ m.hasContent
       THEN [s EXCEPT !.arrived = @ \cup {m.content},
                      !.delivered =
                          IF \E i \in 1..Len(s.log) :
                                 s.log[i].ev = "call" /\ s.log[i].name = "onResponse"
                          THEN @ \cup {m.content} ELSE @]
       ELSE IF m.type = "contentStart" /\ m.ctype = "AUDIO"
       THEN [s EXCEPT !.blocks[id] = [open |-> TRUE, data |-> <<>>]]
       ELSE IF m.type = "audioOutput"
       THEN [s EXCEPT !.blocks[id].data = @ \o m.content]
       ELSE IF m.type = "contentEnd" /\ m.ctype = "AUDIO"
       THEN [s EXCEPT !.blocks[id] = NoBlock]
       ELSE s

\* the inbound frames of the model
TextFrames ==
    { textOutput("USER", TRUE, ShortText, "c1", ""),
      textOutput("USER", FALSE, <<>>, "c1", "END_TURN"),
      textOutput("USER", TRUE, JsonInterrupted, "c1", "PARTIAL_TURN"),
      textOutput("ASSISTANT", FALSE, <<>>, "c1", ""),
      contentStartIn("TEXT", "ASSISTANT", "c1", "FINAL"),
      contentEndIn("TEXT", "c1", "END_TURN") }
    \cup { textOutput("ASSISTANT", TRUE, c, "c1", "") :
             c \in {ShortText, LongTextX, LongTextY, JsonBroken, JsonOther} }

\* frames of other roles and contents
OtherTextFrames ==
    { textOutput("", TRUE, ShortText, "c1", ""),
      contentStartIn("TEXT", "USER", "c1", ""),
      contentEndIn("TEXT", "c1", "") }

InterruptFrames ==
    { textOutput("ASSISTANT", TRUE, JsonInterrupted, "c1", ""),
      contentStartIn("TEXT", "ASSISTANT", "c1", "FINAL") }

\* the chunks of the audio blocks: the k-th audioOutput frame for contentId c
\* since its buffer was created carries ChunkOf(c, k)
ChunkOf(c, k) ==
    IF c = "c1" THEN <<"Q", "R", "V", "X">>[k] ELSE <<"S", "T", "W", "Y">>[k]

\* the audioOutput frames the peer can send next, buffers of at most n chunks
ChunkFrames(n) ==
    { audioOutput(c, <<ChunkOf(c, Len(audioResponse[c].data) + 1)>>) :
        c \in { d \in ContentIds : Len(audioResponse[d].data) < n } }

\* audio blocks: the blocks of c1 have up to MaxChunks chunks, those of c2 one
AudioFrames ==
    { contentStartIn("AUDIO", "ASSISTANT", c, "") : c \in ContentIds }
    \cup { m \in ChunkFrames(MaxChunks) :
             m.contentId = "c1" \/ audioResponse["c2"].data = <<>> }
    \cup { contentEndIn("AUDIO", c, "END_TURN") : c \in ContentIds }

\* audio of one chunk per contentId, without contentStart
UnitFrames ==
    ChunkFrames(1) \cup { contentEndIn("AUDIO", c, "END_TURN") : c \in ContentIds }

OtherFrames ==
    { Msg("event", "usageEvent", "", FALSE, <<>>, "", "", "", ""),
      contentStartIn("TOOL", "TOOL", "c1", ""),
      contentEndIn("TOOL", "c1", "TOOL_USE"),
      Msg("notjson", "", "", FALSE, <<>>, "", "", "", ""),
      Msg("noevent", "", "", FALSE, <<>>, "", "", "", ""),
      Msg("emptyevent", "", "", FALSE, <<>>, "", "", "", "") }

\* the message event of transport t
OnMessage(t, m, throws) ==
    /\ sockets[t].state = "open"
    /\ rejections + timers < MaxTasks
    /\ throws => (m.type = "contentEnd" /\ m.ctype = "AUDIO")
    /\ (m.type = "contentEnd" /\ m.ctype = "AUDIO") => Len(audioQueue) < MaxQueue
    /\ (m.type = "textOutput" \/ (m.type = "contentEnd" /\ m.ctype = "TEXT")) =>
           chatMessages[m.contentId].raw < MaxRaw
    /\ Commit(Op("onmessage", t, TRUE, 0, m),
              Received(HandleIncomingMessage(Cur, m, throws), m))

(***************************************************************************)
(* Actions: the audio element.                                             *)
(***************************************************************************)
\* the play() promise resolves: playback has begun
PlayStarted ==
    /\ player.play = "pending"
    /\ Commit(Op("playStarted", 0, FALSE, 0, NoMsg),
              [Cur EXCEPT !.player.play = "settled", !.player.state = "playing"])

\* the play() promise rejects: the unit cannot be decoded or played
PlayFailed ==
    /\ player.play = "pending"
    /\ rejections + timers < MaxTasks
    /\ Commit(Op("playFailed", 0, FALSE, 0, NoMsg),
              [Cur EXCEPT !.player.play = "none", !.player.state = "paused",
                          !.rejections = @ + 1])

\* the catch callback of a rejected play() promise runs
PlayCatch ==
    /\ rejections > 0
    /\ Commit(Op("playCatch", 0, FALSE, 0, NoMsg),
              PlayRejected([Cur EXCEPT !.rejections = @ - 1]))

\* setTimeout(() => this.playNext(), 100) fires
RetryTimer ==
    /\ timers > 0
    /\ \E throws \in BOOLEAN :
           Commit(Op("retryTimer", 0, FALSE, 0, NoMsg),
                  PlayNext([Cur EXCEPT !.timers = @ - 1], throws))

\* the ended event of the audio element
PlaybackEnded ==
    /\ player.state = "playing"
    /\ \E throws \in BOOLEAN :
           Commit(Op("onended", 0, FALSE, 0, NoMsg),
                  OnEnded([Cur EXCEPT !.player.state = "ended"], throws))

\* cancelAudio() called from outside the frame handler
Cancel ==
    Commit(Op("cancelAudio", 0, FALSE, 0, NoMsg), CancelAudio(Cur))

SessionNext ==
    \/ SetAudioPlayerRef
    \/ StartSession
    \/ TokenResolved
    \/ TokenRejected
    \/ \E t \in 1..Len(sockets) : SocketOpen(t)
    \/ \E t \in 1..Len(sockets), code \in CloseCodes : SocketClose(t, code)
    \/ \E t \in 1..Len(sockets) : SocketError(t)
    \/ EndSession
    \/ MicGranted
    \/ MicDenied
    \/ \E i \in 1..Len(streams) : AudioProcess(i)
    \/ \E k \in 1..MaxCapture + 1 : Rendered(k)
    \/ \E i \in 1..Len(streams) : RecorderStopped(i)

\* the session of a host that leaves the permission prompt of the microphone
\* unanswered, on a network that does not fail
QuietSession ==
    \/ StartSession
    \/ TokenResolved
    \/ \E t \in 1..Len(sockets) : SocketOpen(t)
    \/ EndSession

\* one session at a time: a session is started after the one before it has
\* been ended
SerialSession ==
    \/ socket = 0 /\ tokenWaiters = 0 /\ StartSession
    \/ TokenResolved
    \/ \E t \in 1..Len(sockets) : SocketOpen(t)
    \/ EndSession

TextNext ==
    \/ SerialSession
    \/ \E t \in 1..Len(sockets), m \in TextFrames : OnMessage(t, m, FALSE)

\* one session: startSession() and the opening of its transport
AudioSession ==
    \/ socket = 0 /\ tokenWaiters = 0 /\ StartSession
    \/ TokenResolved
    \/ \E t \in 1..Len(sockets) : SocketOpen(t)

AudioNext ==
    \/ AudioSession
    \/ SetAudioPlayerRef
    \/ \E t \in 1..Len(sockets), m \in AudioFrames, throws \in BOOLEAN :
           OnMessage(t, m, throws)
    \/ PlayStarted
    \/ PlaybackEnded

PlaybackNext ==
    \/ AudioSession
    \/ SetAudioPlayerRef
    \/ \E t \in 1..Len(sockets), m \in UnitFrames \cup InterruptFrames,
          throws \in BOOLEAN : OnMessage(t, m, throws)
    \/ PlayStarted
    \/ PlayFailed
    \/ PlayCatch
    \/ RetryTimer
    \/ PlaybackEnded

\* every kind of message a peer can put on the transport: the text frames,
\* frames with fields left out, frames of other types, and messages that are
\* not JSON or carry no event
InboundFrames == TextFrames \cup OtherTextFrames \cup OtherFrames

InboundNext ==
    \/ AudioSession
    \/ \E t \in 1..Len(sockets), m \in InboundFrames : OnMessage(t, m, FALSE)

\* playback of inbound units with cancelAudio() called at any time
CancelNext ==
    \/ AudioSession
    \/ SetAudioPlayerRef
    \/ \E t \in 1..Len(sockets), m \in UnitFrames, throws \in BOOLEAN :
           OnMessage(t, m, throws)
    \/ PlayStarted
    \/ PlayFailed
    \/ PlayCatch
    \/ RetryTimer
    \/ PlaybackEnded
    \/ Cancel

\* sessions that may be started again before the one before has connected,
\* under text frames
OverlapNext ==
    \/ QuietSession
    \/ \E t \in 1..Len(sockets), m \in TextFrames : OnMessage(t, m, FALSE)

\* the session and its transports with their close and error events
CloseNext ==
    \/ QuietSession
    \/ TokenRejected
    \/ MicGranted
    \/ MicDenied
    \/ \E t \in 1..Len(sockets), code \in CloseCodes : SocketClose(t, code)
    \/ \E t \in 1..Len(sockets) : SocketError(t)

\* the session with the capture chain of a granted microphone, on a network
\* that may drop an open transport
CaptureNext ==
    \/ QuietSession
    \/ MicGranted
    \/ \E i \in 1..Len(streams) : AudioProcess(i)
    \/ \E k \in 1..MaxCapture + 1 : Rendered(k)
    \/ \E i \in 1..Len(streams) : RecorderStopped(i)
    \/ socket # 0 /\ sockets[socket].state = "open" /\ SocketClose(socket, 1006)

InitDefault == Init /\ ~config.includeChatHistory

Next == SessionNext

Spec == Init /\ [][Next]_vars

\* close classification
SpecClose == InitDefault /\ [][CloseNext]_vars

\* outbound audio
SpecCapture == InitDefault /\ [][CaptureNext]_vars

\* the transcript aggregator under text frames
SpecText == InitDefault /\ [][TextNext]_vars

\* the frame handler under every kind of inbound message
SpecInbound == InitDefault /\ [][InboundNext]_vars

\* the playback queue under cancelAudio() calls
SpecCancel == InitDefault /\ [][CancelNext]_vars

\* the transcript aggregator under overlapping startSession() calls
SpecOverlap == InitDefault /\ [][OverlapNext]_vars

\* the audio buffers under audio blocks of several chunks
SpecAudio == InitDefault /\ [][AudioNext]_vars

\* the playback queue and the audio element under units and barge-in
SpecPlayback == InitDefault /\ [][PlaybackNext]_vars

(***************************************************************************)
(* Reading the log and the transports.                                     *)
(***************************************************************************)
Entries(l, ev) == SelectSeq(l, LAMBDA e : e.ev = ev)

\* the callbacks of the handler that ran last, in order
CallNames(l) == [i \in 1..Len(Entries(l, "call")) |-> Entries(l, "call")[i].name]

\* the frames the handler that ran last put on transport t, in order
FramesOn(l, t) ==
    LET sends == SelectSeq(l, LAMBDA e : e.ev = "send" /\ e.t = t)
    IN [i \in 1..Len(sends) |-> sends[i].frame]

Has(l, ev, name) == \E i \in 1..Len(l) : l[i].ev = ev /\ l[i].name = name

\* the positions of the entries ev/name in l
Positions(l, ev, name) == { i \in 1..Len(l) : l[i].ev = ev /\ l[i].name = name }

LastIs(op) == lastOp.op = op

(***************************************************************************)
(* C1: for every startSession() whose transport reaches open, the frames   *)
(* the open handler sends on that transport are exactly sessionStart,      *)
(* promptStart, contentStart(TEXT, SYSTEM), textInput(system prompt),      *)
(* contentEnd(system text), then, if chat history is requested,            *)
(* contentStart(TEXT) with a fresh content id, one textInput per history   *)
(* turn in order with the role of the turn, contentEnd of that id, and     *)
(* finally contentStart(AUDIO).                                            *)
(***************************************************************************)
ExpectedSetup(p, tx, au, h) ==
    <<Frame("sessionStart", 0, 0, "", "", ""),
      Frame("promptStart", p, 0, "", "", ""),
      Frame("contentStart", p, tx, "TEXT", "SYSTEM", ""),
      Frame("textInput", p, tx, "", "", SystemPrompt),
      Frame("contentEnd", p, tx, "", "", "")>>
    \o (IF config.includeChatHistory
        THEN <<Frame("contentStart", p, h, "TEXT", "SYSTEM", "")>>
             \o [i \in 1..Len(config.chatHistory) |->
                    Frame("textInput", p, h, "", config.chatHistory[i].role,
                          config.chatHistory[i].content)]
             \o <<Frame("contentEnd", p, h, "", "", "")>>
        ELSE <<>>)
    \o <<Frame("contentStart", p, au, "AUDIO", "USER", "")>>

C1_SetupOrder ==
    LastIs("onopen") =>
        /\ FramesOn(log, lastOp.t)
             = ExpectedSetup(promptName, textContentName, audioContentName,
                             audioContentName + 1)
        /\ Cardinality({promptName, textContentName, audioContentName,
                        audioContentName + 1}) = 4
        /\ audioContentName + 1 < nextId \/ ~config.includeChatHistory

(***************************************************************************)
(* C2: endSession() twice in a row on a session with an open transport     *)
(* performs contentEnd(audio), promptEnd, sessionEnd, transport close      *)
(* exactly once and in that order; the second call sends no frame, closes  *)
(* nothing, fires no callback and leaves all state unchanged.              *)
(***************************************************************************)
CloseSequence(t) ==
    <<SendEv(t, Frame("contentEnd", promptName, audioContentName, "", "", "")),
      SendEv(t, Frame("promptEnd", promptName, 0, "", "", "")),
      SendEv(t, Frame("sessionEnd", 0, 0, "", "", "")),
      CloseEv(t)>>

\* everything but the record of the handler that ran last
program == <<config, sessionStarted, socket, mediaRecorder, audioPlayerRef, audioQueue,
             isPlaying, audioPlayPromise, audioResponse, chatMessages, sentResponses,
             promptName, textContentName, audioContentName, audioCleanup, sockets,
             tokenWaiters, micWaiters, streams, rendering, captured, player,
             rejections, timers, nextId, stopRaises>>

\* a step of endSession() on an open transport performs the close sequence
C2_FirstCall ==
    (lastOp'.op = "endSession" /\ lastOp'.ready) =>
        /\ SelectSeq(log', LAMBDA e : e.ev \in {"send", "drop", "close", "throw"})
             = CloseSequence(lastOp'.t)
        /\ sockets'[lastOp'.t].state = "closing"

\* a step of endSession() right after such a step does nothing
C2_SecondCall ==
    (lastOp.op = "endSession" /\ lastOp.ready /\ lastOp'.op = "endSession") =>
        /\ log' = <<>>
        /\ program' = program

C3_CloseClassified ==
    LastIs("onclose") =>
        CallNames(log) =
            IF lastOp.code = 1008 THEN <<OnErrorAuthFailed>>
            ELSE IF sessionStarted THEN <<OnErrorDisconnected>>
            ELSE <<>>

C3_Witness ==
    /\ LastIs("onclose")
    /\ lastOp.code = 1008
    /\ sessionStarted
    /\ log = <<CallEv(OnErrorAuthFailed)>>

(***************************************************************************)
(* C4: within one session, onResponse is invoked for an ASSISTANT          *)
(* textOutput frame if and only if no earlier ASSISTANT textOutput frame   *)
(* of the session had the same first 50 characters of content.             *)
(***************************************************************************)
Fingerprints(texts) == { Substring(c, 50) : c \in texts }

AssistantText(op) ==
    /\ op.op = "onmessage"
    /\ op.msg.type = "textOutput"
    /\ op.msg.role = "ASSISTANT"
    /\ op.msg.hasContent

C4_DedupFirstOccurrence ==
    [][ AssistantText(lastOp') =>
          (Has(log', "call", "onResponse")
             <=> Substring(lastOp'.msg.content, 50) \notin Fingerprints(arrived)) ]_vars

(***************************************************************************)
(* C5: the dedup set is scoped to one session.  As claimed: a text that    *)
(* was delivered in an earlier session fires onResponse again the first    *)
(* time it arrives after a later startSession().                           *)
(***************************************************************************)
C5_FirstArrivalDelivered ==
    [][ (AssistantText(lastOp') /\ lastOp'.msg.content \in earlier
           /\ lastOp'.msg.content \notin arrived)
          => Has(log', "call", "onResponse") ]_vars

(***************************************************************************)
(* C5 as amended: a text that was delivered in an earlier session fires    *)
(* onResponse again when it arrives after a later startSession() as the    *)
(* first text of that session with its first 50 characters.                *)
(***************************************************************************)
C5_FirstFingerprintDelivered ==
    [][ (AssistantText(lastOp') /\ lastOp'.msg.content \in earlier
           /\ Substring(lastOp'.msg.content, 50) \notin Fingerprints(arrived))
          => (/\ CallNames(log') = <<"onResponse">>
              /\ Entries(log', "call")[1].arg = lastOp'.msg.content) ]_vars

C5_Witness ==
    /\ AssistantText(lastOp)
    /\ lastOp.msg.content = LongTextX
    /\ LongTextX \in earlier
    /\ arrived = {LongTextX}
    /\ Has(log, "call", "onResponse")

(***************************************************************************)
(* C6: when an ASSISTANT textOutput frame whose content is a JSON object   *)
(* with interrupted = true is handled while the playback queue is          *)
(* non-empty or a unit is playing, the queue is emptied and the active     *)
(* unit is stopped before the accumulator is updated and before any        *)
(* callback is invoked for the frame.                                      *)
(***************************************************************************)
InterruptFrame(op) == AssistantText(op) /\ op.msg.content = JsonInterrupted

\* every entry ev/name of l comes before the entries that update the
\* accumulator or call back
Before(l, ev, name) ==
    \A i \in Positions(l, ev, name) :
        \A j \in 1..Len(l) :
            (l[j].ev = "call" \/ (l[j].ev = "step" /\ l[j].name = "accumulate")) => i < j

C6_BargeInFirst ==
    [][ (InterruptFrame(lastOp') /\ (audioQueue # <<>> \/ Active(player))) =>
          /\ Positions(log', "step", "clearQueue") # {}
          /\ Before(log', "step", "clearQueue")
          /\ Active(player) =>
                (Positions(log', "step", "pause") # {} /\ Before(log', "step", "pause"))
          /\ audioQueue' = <<>>
          /\ ~Active(player') ]_vars

C6_Witness ==
    /\ InterruptFrame(lastOp)
    /\ [i \in 1..Len(log) |-> log[i].name]
         = <<"pause", "clearQueue", "accumulate", "onResponse">>
    /\ player.state = "paused"
    /\ audioQueue = <<>>

(***************************************************************************)
(* C7: contentStart(AUDIO, c), N >= 1 audioOutput frames for c, then       *)
(* contentEnd(AUDIO, c) enqueue exactly one playable unit, built from the  *)
(* concatenation of the N chunks in arrival order; units are enqueued in   *)
(* the order their contentEnd frames arrive, also when the frames of       *)
(* several blocks are interleaved.                                         *)
(***************************************************************************)
AudioEndOf(op, c) ==
    /\ op.op = "onmessage"
    /\ op.msg.type = "contentEnd"
    /\ op.msg.ctype = "AUDIO"
    /\ op.msg.contentId = c

UnitOf(data) == [unit |-> TRUE, data |-> data]

C7_AudioReassembly ==
    [][ \A c \in ContentIds :
          (AudioEndOf(lastOp', c) /\ blocks[c].open /\ Len(blocks[c].data) >= 1) =>
            /\ Len(Entries(log', "step")) >= 1
            /\ Entries(log', "step")[1] = StepArgEv("enqueue", blocks[c].data)
            /\ Cardinality(Positions(log', "step", "enqueue")) = 1
            /\ \/ audioQueue' = Append(audioQueue, UnitOf(blocks[c].data))
               \/ /\ audioQueue' = Tail(Append(audioQueue, UnitOf(blocks[c].data)))
                  /\ \/ /\ Has(log', "step", "play")
                        /\ player'.src = Head(Append(audioQueue, UnitOf(blocks[c].data)))
                     \/ Has(log', "step", "playThrew") ]_vars

C7_Witness ==
    /\ AudioEndOf(lastOp, "c1")
    /\ log = <<StepArgEv("enqueue", <<"Q", "R">>)>>
    /\ audioQueue = <<UnitOf(<<"S">>), UnitOf(<<"Q", "R">>)>>

(***************************************************************************)
(* C8: every textOutput frame with role USER, whatever its stopReason and  *)
(* whether or not an accumulator entry exists for its contentId, produces  *)
(* exactly one onTranscription call and exactly one onUserMessage call     *)
(* with the content of the frame, and no onResponse call.                  *)
(***************************************************************************)
UserText(op) ==
    /\ op.op = "onmessage"
    /\ op.msg.type = "textOutput"
    /\ op.msg.role = "USER"

C8_UserAlwaysForwarded ==
    UserText(lastOp) =>
        Entries(log, "call")
          = <<CallArgEv("onTranscription", lastOp.msg.hasContent, lastOp.msg.content),
              CallArgEv("onUserMessage", lastOp.msg.hasContent, lastOp.msg.content)>>

C8_Witness ==
    /\ UserText(lastOp)
    /\ lastOp.msg.stopReason = ""
    /\ ~chatMessages[lastOp.msg.contentId].present
    /\ CallNames(log) = <<"onTranscription", "onUserMessage">>

(***************************************************************************)
(* C9: an event handed to sendEvent while there is no transport or the     *)
(* transport is not open is dropped: it is not put on any transport, no    *)
(* exception is raised and no callback is called, and no later step puts   *)
(* it on a transport: the frames a step adds to a transport are exactly    *)
(* the events handed to sendEvent in that step while that transport was    *)
(* this.socket and open.                                                   *)
(***************************************************************************)
Sent(t) == IF t \in 1..Len(sockets) THEN sockets[t].sent ELSE <<>>

C9_NotOpenDropped ==
    [][ /\ \A t \in 1..Len(sockets') :
             /\ Sent(t)' = Sent(t) \o FramesOn(log', t)
             /\ FramesOn(log', t) # <<>> =>
                  /\ t = socket
                  /\ sockets'[t].state \in {"open", "closing"}
                  /\ \/ sockets[t].state = "open"
                     \/ lastOp'.op = "onopen" /\ lastOp'.t = t
        /\ (lastOp'.op \in {"rendered", "onstop"} /\ ~lastOp'.ready) =>
             /\ Len(log') = 1
             /\ log'[1].ev = "drop"
             /\ sockets' = sockets ]_vars

C9_Witness ==
    /\ LastIs("rendered")
    /\ ~lastOp.ready
    /\ socket # 0
    /\ sockets[socket].state = "connecting"
    /\ log = <<DropEv(socket, Frame("audioInput", promptName, audioContentName, "", "",
                                     "pcm 1"))>>

(***************************************************************************)
(* C10: under every interleaving of capture callbacks with startSession(), *)
(* transport open and endSession(), every audioInput frame sent on a       *)
(* transport comes after the contentStart(AUDIO) of its audio content on   *)
(* that transport and before the contentEnd of that content, and every     *)
(* text block opened on the transport before it is already closed.         *)
(***************************************************************************)
AudioInputInOrder(sent, i) ==
    /\ \E j \in 1..(i - 1) :
          /\ sent[j].type = "contentStart"
          /\ sent[j].ctype = "AUDIO"
          /\ sent[j].prompt = sent[i].prompt
          /\ sent[j].content = sent[i].content
    /\ \A k \in 1..(i - 1) :
          ~(sent[k].type = "contentEnd" /\ sent[k].content = sent[i].content)
    /\ \E j \in 1..(i - 1) : sent[j].type = "contentStart" /\ sent[j].ctype = "TEXT"
    /\ \A j \in 1..(i - 1) :
          (sent[j].type = "contentStart" /\ sent[j].ctype = "TEXT") =>
              \E k \in (j + 1)..(i - 1) :
                  sent[k].type = "contentEnd" /\ sent[k].content = sent[j].content

C10_AudioInputInsideBlock ==
    \A t \in 1..Len(sockets) :
        \A i \in 1..Len(sockets[t].sent) :
            sockets[t].sent[i].type = "audioInput" => AudioInputInOrder(sockets[t].sent, i)

C10_Witness ==
    /\ LastIs("rendered")
    /\ Len(sockets) = 2
    /\ sockets[2].sent # <<>>
    /\ sockets[2].sent[Len(sockets[2].sent)].type = "audioInput"
    /\ streams[1].releases >= 1

(***************************************************************************)
(* C11: after any call of endSession() that returns, isSessionActive() is  *)
(* false, whatever came before it: no session, an active session, an       *)
(* already ended session, or a startSession() whose token fetch failed and *)
(* left no transport.                                                      *)
(***************************************************************************)
isSessionActive == sessionStarted

C11_EndSessionInactive ==
    (LastIs("endSession") /\ Entries(log, "throw") = <<>>) => ~isSessionActive

(***************************************************************************)
(* C12: when the token fetch of a startSession() fails, or the transport   *)
(* of the session closes with code 1008, the error is reported through     *)
(* onError and the session is torn down: afterwards started is false, the  *)
(* failed attempt has fired no onStateChange(true), and no capture device  *)
(* is running.                                                             *)
(***************************************************************************)
CaptureRunning == \E i \in 1..Len(streams) : streams[i].tracks

C12_TokenFailure ==
    LastIs("tokenRejected") =>
        /\ Has(log, "call", OnErrorToken)
        /\ ~Has(log, "call", OnStateChangeTrue)
        /\ ~sessionStarted
        /\ ~CaptureRunning

C12_AuthClose ==
    (LastIs("onclose") /\ lastOp.code = AuthCloseCode /\ lastOp.t = socket) =>
        /\ Has(log, "call", OnErrorAuthFailed)
        /\ ~sessionStarted
        /\ ~CaptureRunning

C12_FailedStartTornDown == C12_TokenFailure /\ C12_AuthClose

(***************************************************************************)
(* C13: in every interleaving of startSession(), the completion of the     *)
(* microphone acquisition and endSession(), once endSession() has returned *)
(* and no acquisition is pending, no capture device is still open and the  *)
(* release of each acquired capture resource has been invoked exactly      *)
(* once.                                                                   *)
(***************************************************************************)
\* a session was started, endSession() has ended it, and no token fetch or
\* getUserMedia() call is pending
SessionSettled ==
    /\ starts > 0
    /\ ~sessionStarted
    /\ socket = 0
    /\ tokenWaiters = 0
    /\ micWaiters = 0

C13_CaptureReleasedOnce ==
    SessionSettled =>
        \A i \in 1..Len(streams) : ~streams[i].tracks /\ streams[i].releases = 1

(***************************************************************************)
(* C14: when the microphone acquisition of a session fails, onError is     *)
(* called with the microphone message, and an endSession() that follows    *)
(* completes the whole close sequence: the end events if the transport is  *)
(* open, the transport closed, started = false and onStateChange(false);   *)
(* this holds after every earlier history, sessions that started and       *)
(* stopped a recorder included.                                            *)
(***************************************************************************)
FrameTypes(frames) == [i \in 1..Len(frames) |-> frames[i].type]

C14_FailureReported ==
    lastOp'.op = "micDenied" => CallNames(log') = <<OnErrorMicrophone>>

C14_CloseCompleted ==
    (lastOp.op = "micDenied" /\ socket # 0 /\ lastOp'.op = "endSession") =>
        /\ Entries(log', "throw") = <<>>
        /\ lastOp'.ready =>
               FrameTypes(FramesOn(log', socket)) = <<"contentEnd", "promptEnd", "sessionEnd">>
        /\ Entries(log', "close") = <<CloseEv(socket)>>
        /\ socket' = 0
        /\ ~sessionStarted'
        /\ CallNames(log') = <<OnStateChangeFalse>>

C15_HandlerNeverRaises ==
    LastIs("onmessage") => Entries(log, "throw") = <<>>

(***************************************************************************)
(* C16: onStateChange is fired with true when a session starts and with    *)
(* false when it ends, and after any sequence of startSession() and        *)
(* endSession() calls the value most recently passed to onStateChange      *)
(* equals isSessionActive(); before the first call isSessionActive() is    *)
(* false.  The handler that changes started fires onStateChange, and the   *)
(* last onStateChange of every handler carries the value started has when  *)
(* the handler returns; so the value passed last and started agree in      *)
(* every state.                                                            *)
(***************************************************************************)
\* the onStateChange calls of a handler, in order
StateChanges(l) ==
    SelectSeq(CallNames(l), LAMBDA n : n \in {OnStateChangeTrue, OnStateChangeFalse})

StateChangeOf(started) == IF started THEN OnStateChangeTrue ELSE OnStateChangeFalse

C16_Step ==
    /\ starts = 0 => ~isSessionActive
    /\ sessionStarted' # sessionStarted => StateChanges(log') # <<>>
    /\ StateChanges(log') # <<>> =>
           StateChanges(log')[Len(StateChanges(log'))] = StateChangeOf(isSessionActive')
    /\ lastOp'.op \in {"tokenResolved", "tokenRejected"} =>
           StateChanges(log') = <<OnStateChangeTrue>>
    /\ (lastOp'.op = "endSession" /\ socket # 0 /\ Entries(log', "throw") = <<>>) =>
           StateChanges(log') = <<OnStateChangeFalse>>

C16_StateChangeMatchesActive == [][C16_Step]_vars

C16_Witness ==
    /\ LastIs("endSession")
    /\ starts = 2
    /\ StateChanges(log) = <<OnStateChangeFalse>>
    /\ ~isSessionActive
    /\ Len(sockets) = 2

(***************************************************************************)
(* C17: under every interleaving of enqueue, playback completion, playback *)
(* error (the late rejection of the play request of a unit that cancel()   *)
(* stopped included) and cancel(), at most one unit plays at a time and    *)
(* units start in the order they were enqueued: a unit that has started is *)
(* ended only by its own completion, its own error or cancel(), never by a *)
(* later enqueue.  A handler starts a unit only when no unit is active,    *)
(* unless it is the completion handler of the active unit, and the unit it *)
(* starts is the oldest one waiting.                                       *)
(***************************************************************************)
\* the units a handler passed to audioEnqueue / started with play(), in order
StepArgs(l, name) ==
    LET es == SelectSeq(l, LAMBDA e : e.ev = "step" /\ e.name = name)
    IN [i \in 1..Len(es) |-> es[i].arg]

QueueData(q) == [i \in 1..Len(q) |-> q[i].data]

C17_Step ==
    StepArgs(log', "play") # <<>> =>
        /\ Active(player) => lastOp'.op = "onended"
        /\ StepArgs(log', "play")
             = <<Head(QueueData(audioQueue) \o StepArgs(log', "enqueue"))>>

C17_OneUnitInOrder == [][C17_Step]_vars

(***************************************************************************)
(* C18: with a player attached, a unit enqueued while nothing is playing   *)
(* starts playing at once; when the active unit completes naturally the    *)
(* head of the queue starts playing at once if the queue is not empty, and *)
(* otherwise the pipeline is idle and the next enqueue starts playback at  *)
(* once.  Nothing is playing when the audio element has no active unit and *)
(* no rejected play request is waiting for its callback; "starts" is the   *)
(* play() call, in the same handler, of a start that does not raise.       *)
(***************************************************************************)
NothingPlaying == ~Active(player) /\ rejections = 0

\* the handler of the step enqueued a unit and no start raised in it
Enqueued ==
    /\ audioPlayerRef
    /\ StepArgs(log', "enqueue") # <<>>
    /\ ~Has(log', "step", "playThrew")

C18_EnqueueWhileIdle ==
    (Enqueued /\ NothingPlaying) =>
        /\ StepArgs(log', "play")
             = <<Head(QueueData(audioQueue) \o StepArgs(log', "enqueue"))>>
        /\ Active(player')

C18_Completion ==
    (lastOp'.op = "onended" /\ ~Has(log', "step", "playThrew")) =>
        IF audioQueue # <<>>
        THEN /\ StepArgs(log', "play") = <<Head(audioQueue).data>>
             /\ player'.src = Head(audioQueue)
             /\ Active(player')
             /\ audioQueue' = Tail(audioQueue)
        ELSE /\ StepArgs(log', "play") = <<>>
             /\ ~Active(player')
             /\ ~isPlaying'

C18_AfterCompletion ==
    (Enqueued /\ lastOp.op = "onended" /\ ~Active(player) /\ audioQueue = <<>>) =>
        /\ StepArgs(log', "play") = StepArgs(log', "enqueue")
        /\ Active(player')

C18_StartsAtOnce ==
    [][C18_EnqueueWhileIdle /\ C18_Completion /\ C18_AfterCompletion]_vars

C18_Witness ==
    /\ LastIs("onended")
    /\ StepArgs(log, "play") # <<>>
    /\ player.state = "loading"
    /\ isPlaying
    /\ audioQueue = <<>>

(***************************************************************************)
(* C19: after a playback error of the active unit, whether its play        *)
(* request is rejected asynchronously or starting it raises synchronously, *)
(* onError is not called, the failed unit is treated as completed, and if  *)
(* units remain in the queue the next one eventually starts playing        *)
(* without a further enqueue.  For the last part: the handler of the error *)
(* starts the next unit itself or leaves something pending that will call  *)
(* playNext() (a retry timer, a rejection callback, or an active unit      *)
(* whose completion will).                                                 *)
(***************************************************************************)
OnErrorCalls(l) ==
    SelectSeq(CallNames(l),
              LAMBDA n : n \in {OnErrorAuthFailed, OnErrorDisconnected, OnErrorSocket,
                                OnErrorToken, OnErrorMicrophone})

\* something is pending that will call playNext() without a further enqueue
NextStartPending(p, r, t) == Active(p) \/ r > 0 \/ t > 0

C19_Rejected ==
    lastOp'.op = "playCatch" =>
        /\ OnErrorCalls(log') = <<>>
        /\ ~isPlaying'
        /\ timers' = timers + 1

C19_Raised ==
    Has(log', "step", "playThrew") =>
        /\ OnErrorCalls(log') = <<>>
        /\ ~isPlaying'
        /\ Len(audioQueue') < Len(audioQueue) + Len(StepArgs(log', "enqueue"))
        /\ audioQueue' # <<>> =>
               \/ StepArgs(log', "play") # <<>>
               \/ NextStartPending(player', rejections', timers')

C19_ErrorSkipsToNext == [][C19_Rejected /\ C19_Raised]_vars

(***************************************************************************)
(* C20: cancel() may be called in every reachable state (no player         *)
(* attached, idle, a unit loading, a unit playing) and always leaves the   *)
(* playback queue empty, no unit playing and the pipeline idle; a second   *)
(* cancel() right after the first leaves the state unchanged.              *)
(***************************************************************************)
C20_Callable == ENABLED Cancel

C20_Cancelled ==
    lastOp'.op = "cancelAudio" =>
        /\ audioQueue' = <<>>
        /\ ~Active(player')
        /\ ~isPlaying'
        /\ ~audioPlayPromise'
        /\ Entries(log', "throw") = <<>>

C20_Again ==
    (lastOp.op = "cancelAudio" /\ lastOp'.op = "cancelAudio") =>
        /\ program' = program
        /\ ~Has(log', "step", "pause")

C20_CancelIdempotent == [][C20_Callable /\ C20_Cancelled /\ C20_Again]_vars

C20_Witness ==
    /\ LastIs("cancelAudio")
    /\ Has(log, "step", "pause")
    /\ player.state = "paused"
    /\ player.src.unit
    /\ rejections = 0
    /\ audioQueue = <<>>
    /\ ~isPlaying

(***************************************************************************)
(* C21: startSession() empties the transcript map, the audio buffer map,   *)
(* the playback queue and the dedup set before it starts the token fetch   *)
(* or creates a transport, so no frame of the new transport is ever        *)
(* handled against accumulator state of an earlier session: when the       *)
(* transport of the session opens, which is before its first frame, the    *)
(* four collections are still empty.                                       *)
(***************************************************************************)
AccumulatorsEmpty(cm, ar, aq, sr) ==
    /\ \A c \in ContentIds : ~cm[c].present /\ ~ar[c].present
    /\ aq = <<>>
    /\ sr = {}

C21_ResetFirst ==
    lastOp'.op = "startSession" =>
        /\ AccumulatorsEmpty(chatMessages', audioResponse', audioQueue', sentResponses')
        /\ sockets' = sockets
        /\ tokenWaiters' \in {tokenWaiters, tokenWaiters + 1}

C21_EmptyAtOpen ==
    (lastOp'.op = "onopen" /\ lastOp'.t = socket') =>
        AccumulatorsEmpty(chatMessages', audioResponse', audioQueue', sentResponses')

C21_FreshAccumulators == [][C21_ResetFirst /\ C21_EmptyAtOpen]_vars

(***************************************************************************)
(* C22: the promptId, textContentId and audioContentId generated at the    *)
(* open of a transport are distinct from every identifier of earlier       *)
(* opens, and every frame sent on a transport (setup events, audioInput,   *)
(* the contentEnd / promptEnd of endSession) carries the identifiers       *)
(* generated at the open of that same transport: the open handler of a     *)
(* transport sends on that transport only, the frames of one transport     *)
(* name one prompt, and no identifier appears on two transports.           *)
(***************************************************************************)
\* the identifiers carried by the frames sent on transport t
PromptsOn(t) ==
    { Sent(t)[i].prompt : i \in 1..Len(Sent(t)) } \ {0}

ContentsOn(t) ==
    { Sent(t)[i].content : i \in 1..Len(Sent(t)) } \ {0}

C22_FreshAtOpen ==
    lastOp'.op = "onopen" =>
        /\ Cardinality({promptName', textContentName', audioContentName'}) = 3
        /\ \A id \in {promptName', textContentName', audioContentName'} :
               id >= nextId /\ id < nextId'
        /\ \A i \in 1..Len(log') : log'[i].ev = "send" => log'[i].t = lastOp'.t

C22_OwnIdentifiers ==
    \A t \in 1..Len(sockets) :
        /\ Cardinality(PromptsOn(t)) <= 1
        /\ \A u \in 1..Len(sockets) :
               u # t => (PromptsOn(t) \cup ContentsOn(t))
                           \cap (PromptsOn(u) \cup ContentsOn(u)) = {}

C22_IdentifiersOfTransport == [][C22_FreshAtOpen /\ C22_OwnIdentifiers']_vars

(***************************************************************************)
(* C23: the audio buffer map holds an entry for a contentId only while     *)
(* that audio block is open: the entry is created empty on                 *)
(* contentStart(AUDIO), grows on each audioOutput, and is removed when     *)
(* contentEnd(AUDIO) flushes it, so a repeated contentEnd(AUDIO) for the   *)
(* same contentId does not enqueue the same audio a second time.           *)
(***************************************************************************)
C23_Created ==
    \A c \in ContentIds :
        (lastOp'.op = "onmessage" /\ lastOp'.msg.type = "contentStart"
           /\ lastOp'.msg.ctype = "AUDIO" /\ lastOp'.msg.contentId = c) =>
            audioResponse'[c] = [present |-> TRUE, data |-> <<>>]

C23_Grows ==
    \A c \in ContentIds :
        (lastOp'.op = "onmessage" /\ lastOp'.msg.type = "audioOutput"
           /\ lastOp'.msg.contentId = c /\ lastOp'.msg.hasContent) =>
            audioResponse'[c] = [present |-> TRUE,
                                 data |-> audioResponse[c].data \o lastOp'.msg.content]

C23_Removed ==
    \A c \in ContentIds :
        AudioEndOf(lastOp', c) =>
            /\ ~audioResponse'[c].present
            /\ AudioEndOf(lastOp, c) =>
                   (StepArgs(log', "enqueue") # StepArgs(log, "enqueue")
                      \/ StepArgs(log', "enqueue") = <<>>)

C23_BufferWhileOpen == [][C23_Created /\ C23_Grows /\ C23_Removed]_vars

(***************************************************************************)
(* C24: an audioOutput or textOutput frame whose contentId has no          *)
(* accumulator or buffer entry never causes an onError call and never ends *)
(* the session; for audioOutput the buffer is created on the spot and the  *)
(* chunk is kept, so that a later contentEnd(AUDIO) for that contentId     *)
(* enqueues it.                                                            *)
(***************************************************************************)
\* the frame of the step is an audioOutput / textOutput without an entry
NoEntryFrame ==
    /\ lastOp'.op = "onmessage"
    /\ lastOp'.msg.contentId \in ContentIds
    /\ \/ lastOp'.msg.type = "audioOutput"
            /\ ~audioResponse[lastOp'.msg.contentId].present
       \/ lastOp'.msg.type = "textOutput"
            /\ ~chatMessages[lastOp'.msg.contentId].present

C24_Tolerated ==
    NoEntryFrame =>
        /\ OnErrorCalls(log') = <<>>
        /\ StateChanges(log') = <<>>
        /\ Entries(log', "close") = <<>>
        /\ sessionStarted' = sessionStarted
        /\ socket' = socket
        /\ sockets' = sockets
        /\ lastOp'.msg.type = "textOutput" => chatMessages' = chatMessages
        /\ lastOp'.msg.type = "audioOutput" =>
               audioResponse'[lastOp'.msg.contentId]
                 = [present |-> TRUE, data |-> lastOp'.msg.content]

C24_Flushed ==
    \A c \in ContentIds :
        (AudioEndOf(lastOp', c) /\ audioResponse[c].present) =>
            /\ StepArgs(log', "enqueue") = <<audioResponse[c].data>>
            /\ \/ audioQueue' = Append(audioQueue, UnitOf(audioResponse[c].data))
               \/ audioQueue' = Tail(Append(audioQueue, UnitOf(audioResponse[c].data)))

C24_LazyRecovery == [][C24_Tolerated /\ C24_Flushed]_vars

C24_Witness ==
    /\ AudioEndOf(lastOp, "c2")
    /\ ~blocks["c2"].open
    /\ StepArgs(log, "enqueue") = <<<<ChunkOf("c2", 1)>>>>
    /\ audioQueue = <<UnitOf(<<ChunkOf("c2", 1)>>)>>
    /\ isPlaying

(***************************************************************************)
(* C25: a contentEnd(TEXT) frame fires no callback at all; its only effect *)
(* is to record stopReason on the accumulator entry of its contentId when  *)
(* that entry exists, leaving the audio buffers, the playback queue and    *)
(* the dedup set unchanged.                                                *)
(***************************************************************************)
TextEnd(op) ==
    /\ op.op = "onmessage"
    /\ op.msg.type = "contentEnd"
    /\ op.msg.ctype = "TEXT"

\* nothing but the transcript map changes and nothing is called or sent
C25_Quiet ==
    /\ log' = <<>>
    /\ audioResponse' = audioResponse
    /\ audioQueue' = audioQueue
    /\ sentResponses' = sentResponses
    /\ <<isPlaying, player, sessionStarted, socket, sockets>>'
         = <<isPlaying, player, sessionStarted, socket, sockets>>

C25_OnlyStopReason ==
    [][ TextEnd(lastOp') =>
          /\ C25_Quiet
          /\ chatMessages' =
               IF chatMessages[lastOp'.msg.contentId].present
               THEN [chatMessages EXCEPT ![lastOp'.msg.contentId].stopReason
                                           = lastOp'.msg.stopReason]
               ELSE chatMessages ]_vars

(***************************************************************************)
(* C25, amended: a contentEnd(TEXT) frame fires no callback; when the      *)
(* entry of its contentId exists it records stopReason on it and appends   *)
(* the frame to the raw message list of the entry, and it leaves the audio *)
(* buffers, the playback queue and the dedup set unchanged.                *)
(***************************************************************************)
C25_StopReasonAndRaw ==
    [][ TextEnd(lastOp') =>
          /\ C25_Quiet
          /\ chatMessages' =
               IF chatMessages[lastOp'.msg.contentId].present
               THEN [chatMessages EXCEPT ![lastOp'.msg.contentId] =
                        [@ EXCEPT !.stopReason = lastOp'.msg.stopReason,
                                  !.raw = @ + 1]]
               ELSE chatMessages ]_vars

C25_Witness ==
    /\ TextEnd(lastOp)
    /\ chatMessages["c1"].present
    /\ chatMessages["c1"].stopReason = "END_TURN"
    /\ chatMessages["c1"].raw = 2
    /\ sentResponses # {}

(***************************************************************************)
(* C26: an inbound frame whose event type is not one of textOutput,        *)
(* audioOutput, contentStart, contentEnd, and a contentStart or contentEnd *)
(* whose type is neither TEXT nor AUDIO, leaves the transcript map, the    *)
(* audio buffers, the playback queue, the dedup set and started unchanged  *)
(* and fires no callback.                                                  *)
(***************************************************************************)
UnknownFrame(op) ==
    /\ op.op = "onmessage"
    /\ op.msg.kind = "event"
    /\ \/ op.msg.type \notin {"textOutput", "audioOutput", "contentStart", "contentEnd"}
       \/ /\ op.msg.type \in {"contentStart", "contentEnd"}
          /\ op.msg.ctype \notin {"TEXT", "AUDIO"}

C26_UnknownIgnored ==
    [][ UnknownFrame(lastOp') => (log' = <<>> /\ program' = program) ]_vars

C26_Witness ==
    /\ UnknownFrame(lastOp)
    /\ lastOp.msg.type = "usageEvent"
    /\ chatMessages["c1"].present
    /\ sentResponses # {}
    /\ sessionStarted

(***************************************************************************)
(* C27: the close of a transport that endSession() itself closed never     *)
(* produces an onError call, in every interleaving: also when              *)
(* startSession() is called again and sets started to true before the      *)
(* close event of the old transport is delivered.  The close event of the  *)
(* closing handshake carries no policy-violation code.                     *)
(***************************************************************************)
\* the step is the close event of a transport that endSession() closed
ClosedByEndSession ==
    /\ lastOp'.op = "onclose"
    /\ sockets[lastOp'.t].state = "closing"
    /\ lastOp'.code # AuthCloseCode

C27_OwnCloseSilent == [][ClosedByEndSession => OnErrorCalls(log') = <<>>]_vars

(***************************************************************************)
(* C28: at any time at most one transport created by the manager is live   *)
(* (created and not closed; a transport that endSession() is closing is    *)
(* not counted), and each transport receives at most one setup sequence;   *)
(* this holds when startSession() is called again while an earlier         *)
(* startSession() is still waiting for its token or its transport has not  *)
(* opened yet.                                                             *)
(***************************************************************************)
Live == { t \in 1..Len(sockets) : sockets[t].state \in {"connecting", "open"} }

SetupsOn(t) == { i \in 1..Len(Sent(t)) : Sent(t)[i].type = "sessionStart" }

C28_OneLiveTransport ==
    /\ Cardinality(Live) <= 1
    /\ \A t \in 1..Len(sockets) : Cardinality(SetupsOn(t)) <= 1

(***************************************************************************)
(* C29: if endSession() is called at any point after startSession() was    *)
(* invoked, the time while the token fetch of that startSession() is still *)
(* pending included, and no further startSession() is called, then         *)
(* eventually no transport is open, the capture device is released and     *)
(* started is false.  Only endSession() clears started and closes the      *)
(* transport of the session, so the claim requires that a token fetch      *)
(* that completes after endSession() was called does not bring the session *)
(* up: it leaves started false, creates no transport and requests no       *)
(* microphone.                                                             *)
(***************************************************************************)
\* the token fetch of a startSession() completes right after endSession()
TokenAfterEnd ==
    /\ lastOp.op = "endSession"
    /\ lastOp'.op \in {"tokenResolved", "tokenRejected"}

C29_EndSessionWins ==
    [][ TokenAfterEnd =>
          /\ ~sessionStarted'
          /\ Live' \subseteq Live
          /\ micWaiters' = micWaiters
          /\ StateChanges(log') = <<>> ]_vars

(***************************************************************************)
(* C30: playback cancellation does not depend on deduplication: every      *)
(* ASSISTANT textOutput frame carrying the interrupted = true marker       *)
(* cancels playback (the queue is emptied, the active unit is paused and   *)
(* nothing is playing afterwards), also when the text of the marker was    *)
(* already seen in this session, in which case the frame is not forwarded  *)
(* to onResponse.                                                          *)
(***************************************************************************)
\* the text of the frame of op was already forwarded in this session
AlreadySeen(op) == Substring(op.msg.content, ResponseKeyLen) \in sentResponses

C30_Cancelled ==
    /\ Positions(log', "step", "clearQueue") # {}
    /\ Active(player) => Positions(log', "step", "pause") # {}
    /\ audioQueue' = <<>>
    /\ ~Active(player')
    /\ ~isPlaying'

C30_CancelIgnoresDedup ==
    [][ InterruptFrame(lastOp') =>
          /\ C30_Cancelled
          /\ AlreadySeen(lastOp') =>
                (~Has(log', "call", "onResponse") /\ sentResponses' = sentResponses)
          /\ ~AlreadySeen(lastOp') => Has(log', "call", "onResponse") ]_vars

C30_Witness ==
    /\ InterruptFrame(lastOp)
    /\ ~Has(log, "call", "onResponse")
    /\ Has(log, "step", "pause")
    /\ Has(log, "step", "clearQueue")
    /\ player.state = "paused"
    /\ audioQueue = <<>>

====
